---- MODULE Spec2Model ----
(***************************************************************************)
(* A model of pki_playground.py: the PKI bootstrap (--pki-init), the leaf  *)
(* certificate issuance (--create-server-cert), the deployment             *)
(* provisioning (--create-deployment) and the deployment activation        *)
(* (--start-deployment) with its /etc/hosts registration.                  *)
(*                                                                         *)
(* Text is a sequence of one-character strings.  The filesystem calls of   *)
(* the script itself (mkdir, open/write, rm, mv) are taken to succeed; the *)
(* cryptographic, keystore and orchestration tools (openssl, keytool,      *)
(* docker-compose) exit with a status the model chooses.                   *)
(***************************************************************************)
EXTENDS Integers, Sequences, FiniteSets, TLC

\* ------------------------------------------------------------------ bounds
\* The operator starts no further activation once /etc/hosts holds this
\* many lines (every activation appends one).
MaxHostsLines == 3

\* ---------------------------------------------------------------- inputs
PkiNames == {"ca"}
Domains == {<<"a">>, <<"a", "b">>}
DeploymentNames == {"d1", "d2"}
Ports == {"8443", "9443"}
\* One passphrase below and one at the length the prompt asks for.
Passphrases == {<<"1", "2", "3", "4", "5">>, <<"1", "2", "3", "4", "5", "6">>}

\* The length the prompt of _generate_server_certs announces.
MinPassLen == 6

\* A text file that does not exist, and a compose definition that does not.
NoFile == <<"<absent>">>
NoCompose ==
  [HTTPS_PORT_BIND |-> "<absent>", KEYSTORE_PASSWORD |-> <<>>,
   PKI_NAME |-> "<absent>", DOMAIN_NAME |-> <<>>]

\* The value of a cert.conf that was never written.
NoCertConf == [SERVER_DOMAIN |-> NoFile]
NoDep == "-"
NoPass == <<>>

\* ------------------------------------------------------------------- text
NL == "\n"

\* The literal "127.0.0.1    " of the host_additions record.
Loopback == <<"1", "2", "7", ".", "0", ".", "0", ".", "1", " ", " ", " ", " ">>

\* f"127.0.0.1    {domain_name}"
HostAdditionsText(domain_name) == Loopback \o domain_name

\* `needle in hay` on Python strings.
Contains(hay, needle) ==
  \E i \in 0..(Len(hay) - Len(needle)) :
    SubSeq(hay, i + 1, i + Len(needle)) = needle

\* Position of the first newline of text, 0 when it holds none.
FirstNL(text) ==
  IF \E i \in 1..Len(text) : text[i] = NL
  THEN CHOOSE i \in 1..Len(text) :
         text[i] = NL /\ \A j \in 1..(i - 1) : text[j] # NL
  ELSE 0

\* `for line in file`: the lines of text, each with its terminator.
RECURSIVE FileLines(_)
FileLines(text) ==
  IF text = <<>> THEN <<>>
  ELSE IF FirstNL(text) = 0 THEN <<text>>
  ELSE <<SubSeq(text, 1, FirstNL(text))>>
         \o FileLines(SubSeq(text, FirstNL(text) + 1, Len(text)))

RECURSIVE Concat(_)
Concat(lines) ==
  IF lines = <<>> THEN <<>> ELSE Head(lines) \o Concat(Tail(lines))

\* A filter that compares the whole line with the entry.
KeepsLineExact(hosts_entry, line) == line # hosts_entry

\* The filter of the KeyboardInterrupt handler: a line is kept when the
\* entry is not a substring of it.
KeepsLine(hosts_entry, line) == ~Contains(line, hosts_entry)

\* The content written to /etc/hosts.tmp and moved over /etc/hosts.
FilteredHosts(content, hosts_entry) ==
  Concat(SelectSeq(FileLines(content), LAMBDA line : KeepsLine(hosts_entry, line)))

\* hosts.write(f"\n{hosts_entry}") on a file opened for append.
AppendedHosts(content, hosts_entry) == content \o <<NL>> \o hosts_entry

\* ------------------------------------------------------------------ state
VARIABLES
  pkiDir,       \* pkis/<pki>/ exists
  pkiFiles,     \* pkis/<pki>/<file>: how many times the file was written
  serversDir,   \* pkis/<pki>/servers/ exists
  domainDir,    \* pkis/<pki>/servers/<domain>/ exists
  domainFiles,  \* the files present in pkis/<pki>/servers/<domain>/
  certConfText, \* what pkis/<pki>/servers/<domain>/cert.conf holds
  depDir,       \* deployments/<dep>/ exists
  compose,      \* deployments/<dep>/docker-compose.yaml, or NoCompose
  hostAdd,      \* deployments/<dep>/host_additions, or NoFile
  hosts,        \* the content of /etc/hosts
  queue,        \* the operations of the invocation still to run
  running,      \* the deployment whose docker-compose child is awaited
  hosts_entry,  \* the local variable of _start_deployment
  hostsBefore,  \* /etc/hosts as it was when the latest activation began
  hostsFirst,   \* /etc/hosts as it was before the first invocation
  ended,        \* how the activation of this invocation ended, "-" if none has
  trace,        \* what the invocation printed and which tools it ran
  status        \* "running", or how the last invocation ended

vars == <<pkiDir, pkiFiles, serversDir, domainDir, domainFiles, certConfText,
          depDir,
          compose, hostAdd, hosts, queue, running, hosts_entry, hostsBefore,
          hostsFirst, ended, trace, status>>

pkiState == <<pkiDir, pkiFiles, serversDir, domainDir, domainFiles,
              certConfText>>
depState == <<depDir, compose, hostAdd>>
actState == <<hosts, running, hosts_entry, hostsBefore, hostsFirst, ended>>

\* The files of pkis/<pki>/ the bootstrap writes.
RootKey == "pki.key"
RootCrt == "pki.crt"
ServiceKey == "private.pki.key"
SigningRequest == "pki.csr"
CsrConf == "csr.conf"
PkiFileNames == {RootKey, RootCrt, ServiceKey, SigningRequest, CsrConf}

\* The files of pkis/<pki>/servers/<domain>/.
CertConf == "cert.conf"
LeafCrt == "domain.crt"
Pkcs12 == "keystore.pkcs12"
Jks == "keystore.jks"

\* ----------------------------------------------------------------- events
Ev(name) == [ev |-> name, pass |-> NoPass]
EvPass(name, pw) == [ev |-> name, pass |-> pw]

\* The external tools, by the command line that starts them.
ToolRootCert == "openssl req -x509"
ToolGenRsa == "openssl genrsa"
ToolGenCsr == "openssl req -new"
ToolSign == "openssl x509 -req"
ToolPkcs12 == "openssl pkcs12 -export"
ToolKeytool == "keytool -importkeystore"
ToolRm == "rm keystore.pkcs12"
ToolCompose == "docker-compose up"
ToolMv == "mv /etc/hosts.tmp /etc/hosts"
ToolDecrypt == "openssl enc -d"
ToolGitCrypt == "git-crypt unlock"
ToolRmKey == "rm git-crypt-key"
Tools == {ToolRootCert, ToolGenRsa, ToolGenCsr, ToolSign, ToolPkcs12,
          ToolKeytool, ToolRm, ToolCompose, ToolMv, ToolDecrypt,
          ToolGitCrypt, ToolRmKey}

\* The messages the claims read.
MsgPkiExists == "Error: PKI with the name already exists"
MsgNoPkiDir == "Error: PKI directory does not exist"
MsgMissingFile == "Error: missing file"
MsgInUse == "Error: domain directory is already in use"
MsgNoDeployment == "Provided deployment does not exists"
MsgDoneRoot == "Done generating root certificates"
MsgDoneServer == "Done generating server certificates"
MsgDoneDeployment == "Done generating the deployment"
MsgDoneStart == "Done starting the deployment"
MsgUnlocking == "Unlocking the repository..."
MsgUnlockFailed == "Error: Unlocking failed"

\* ------------------------------------------------------------- operations
Op(name, pki, domain, dep, port) ==
  [op |-> name, pki |-> pki, domain |-> domain, dep |-> dep, port |-> port]

OpPkiInit(p) == Op("pki_init", p, <<>>, NoDep, "-")
OpServerCert(p, dom) == Op("create_server_cert", p, dom, NoDep, "-")
OpCreateDeployment(d, port, p, dom) == Op("create_deployment", p, dom, d, port)
OpStartDeployment(d) == Op("start_deployment", "-", <<>>, d, "-")
OpUnlock == Op("unlock", "-", <<>>, NoDep, "-")

\* The invocation goes on with the operations left, or ends with exit
\* status 0 when none is.
StatusAfter(rest) == IF rest = <<>> THEN "ok" ELSE "running"

\* The head of the queue is `name` and no child process is awaited.
AtOp(name) ==
  /\ status = "running"
  /\ running = NoDep
  /\ queue # <<>>
  /\ Head(queue).op = name

\* The operation returned: the invocation goes on.
Return(events) ==
  /\ trace' = trace \o events
  /\ queue' = Tail(queue)
  /\ status' = StatusAfter(Tail(queue))

\* sys.exit(1): the invocation ends, the operations left do not run.
SysExit(events) ==
  /\ trace' = trace \o events
  /\ queue' = <<>>
  /\ status' = "exit1"

\* An exception nothing catches (CalledProcessError of check=True, an
\* OSError of open): the interpreter ends with a traceback.
Raise(events) ==
  /\ trace' = trace \o events
  /\ queue' = <<>>
  /\ status' = "exception"

\* What /etc/hosts may hold before the first invocation: nothing, another
\* host's line with or without its newline, and the line of a host whose
\* name begins with the name of a deployment's domain.
InitialHosts ==
  { <<>>,
    <<"x", NL>>,
    <<"x">>,
    Loopback \o <<"a", "b">> \o <<NL>> }

\* ------------------------------------------------------------ _check_files
\* A check that is content with the first file it finds.
CheckAnyFile(present) == \E i \in 1..Len(present) : present[i]

\* _check_files(files): TRUE when every file is a file on disk; otherwise
\* the script prints the first missing one and calls sys.exit(1).
check_files(present) == \A i \in 1..Len(present) : present[i]

\* -------------------------------------------------- _generate_root_certs
Written(files, names) ==
  [f \in DOMAIN files |-> IF f \in names THEN files[f] + 1 ELSE files[f]]

RootTools == <<ToolRootCert, ToolGenRsa, ToolGenCsr>>

\* The tools run when the step `failed` exits nonzero (0: none does).
ToolsRun(tools, failed) ==
  [i \in 1..(IF failed = 0 THEN Len(tools) ELSE failed) |-> Ev(tools[i])]

\* The files written when the step `failed` exits nonzero: a step that
\* fails writes nothing and no later step runs.
RootFilesWritten(failed) ==
  (IF failed # 1 THEN {RootKey, RootCrt} ELSE {})
    \cup (IF failed \notin {1, 2} THEN {ServiceKey, CsrConf} ELSE {})
    \cup (IF failed = 0 THEN {SigningRequest} ELSE {})

\* A bootstrap that runs every step without check=True and reports success.
RunRootCertsUnchecked(p) ==
  \E failed \in 0..3 :
    /\ pkiDir' = [pkiDir EXCEPT ![p] = TRUE]
    /\ pkiFiles' = [pkiFiles EXCEPT ![p] =
                      Written(@, IF failed = 1 THEN {ServiceKey, CsrConf, SigningRequest}
                                 ELSE IF failed = 2 THEN {RootKey, RootCrt, CsrConf}
                                 ELSE RootFilesWritten(failed))]
    /\ Return(ToolsRun(RootTools, 0) \o <<Ev(MsgDoneRoot)>>)
    /\ UNCHANGED <<serversDir, domainDir, domainFiles, certConfText, depState,
                   actState>>

\* A bootstrap that removes its directory again when a step fails.
RunRootCertsCleanup(p) ==
  \E failed \in 0..3 :
    /\ pkiDir' = [pkiDir EXCEPT ![p] = (failed = 0)]
    /\ pkiFiles' = [pkiFiles EXCEPT ![p] =
                      IF failed = 0 THEN Written(@, RootFilesWritten(0)) ELSE @]
    /\ IF failed = 0
       THEN Return(ToolsRun(RootTools, 0) \o <<Ev(MsgDoneRoot)>>)
       ELSE Raise(ToolsRun(RootTools, failed))
    /\ UNCHANGED <<serversDir, domainDir, domainFiles, certConfText, depState,
                   actState>>

\* Lines 131 to 204: mkdir, the three openssl steps and csr.conf.
RunRootCerts(p) ==
  \E failed \in 0..3 :
    /\ pkiDir' = [pkiDir EXCEPT ![p] = TRUE]
    /\ pkiFiles' = [pkiFiles EXCEPT ![p] = Written(@, RootFilesWritten(failed))]
    /\ IF failed = 0
       THEN Return(ToolsRun(RootTools, 0) \o <<Ev(MsgDoneRoot)>>)
       ELSE Raise(ToolsRun(RootTools, failed))
    /\ UNCHANGED <<serversDir, domainDir, domainFiles, certConfText, depState,
                   actState>>

\* A bootstrap that creates the directory whether or not it exists.
GenerateRootCertsUnguarded ==
  /\ AtOp("pki_init")
  /\ RunRootCerts(Head(queue).pki)

GenerateRootCerts ==
  /\ AtOp("pki_init")
  /\ LET p == Head(queue).pki IN
       IF pkiDir[p]
       THEN /\ SysExit(<<Ev(MsgPkiExists)>>)
            /\ UNCHANGED <<pkiState, depState, actState>>
       ELSE RunRootCerts(p)

\* ------------------------------------------------ _generate_server_certs
\* required_filenames, in the order of the list.
RequiredRootFiles == <<ServiceKey, RootCrt, SigningRequest, RootKey>>

RootFilesPresent(p) ==
  [i \in 1..Len(RequiredRootFiles) |-> pkiFiles[p][RequiredRootFiles[i]] > 0]

\* What input() returns, or EOF when the operator ends the prompt.
EOF == <<"<eof>">>
Answers == Passphrases \cup {EOF}

\* An issuance that never removes the PKCS#12 bundle.
ServerFilesAfterKeepBundle(files, failed) ==
  files \cup {CertConf}
    \cup (IF failed # 1 THEN {LeafCrt} ELSE {})
    \cup (IF failed \notin {1, 2} THEN {Pkcs12} ELSE {})
    \cup (IF failed = 0 THEN {Jks} ELSE {})

\* An issuance that removes the PKCS#12 bundle also when keytool fails.
ServerFilesAfterCleanup(files, failed) ==
  (files \cup {CertConf}
     \cup (IF failed # 1 THEN {LeafCrt} ELSE {})
     \cup (IF failed = 0 THEN {Jks} ELSE {}))
    \ (IF failed \in {0, 3} THEN {Pkcs12} ELSE {})

\* The steps of the issuance after cert.conf: 1 sign, 2 the prompt and
\* the PKCS#12 export, 3 keytool; rm follows keytool.  `failed` is the
\* step that ends the operation, 0 when none does.
ServerFilesAfter(files, failed) ==
  LET conf == files \cup {CertConf}
      signed == IF failed # 1 THEN conf \cup {LeafCrt} ELSE conf
      exported == IF failed \notin {1, 2} THEN signed \cup {Pkcs12} ELSE signed
  IN IF failed = 0 THEN (exported \cup {Jks}) \ {Pkcs12} ELSE exported

ServerEvents(failed, answer) ==
  <<Ev(ToolSign)>>
    \o (IF failed # 1 /\ answer # EOF
        THEN <<EvPass(ToolPkcs12, answer)>> ELSE <<>>)
    \o (IF failed \notin {1, 2} THEN <<EvPass(ToolKeytool, answer)>> ELSE <<>>)
    \o (IF failed = 0 THEN <<Ev(ToolRm), Ev(MsgDoneServer)>> ELSE <<>>)

\* cert_template.render(...): the value the template is rendered with.
RenderCertConf(server_domain) == [SERVER_DOMAIN |-> server_domain]

\* Lines 233 to 331: the directories, cert.conf and the external steps.
RunServerCerts(p, dom) ==
  \E failed \in 0..3, answer \in Answers :
    /\ answer = EOF => failed = 2
    /\ serversDir' = [serversDir EXCEPT ![p] = TRUE]
    /\ domainDir' = [domainDir EXCEPT ![p][dom] = TRUE]
    /\ domainFiles' = [domainFiles EXCEPT ![p][dom] = ServerFilesAfter(@, failed)]
    /\ certConfText' = [certConfText EXCEPT ![p][dom] = RenderCertConf(dom)]
    /\ LET created == IF ~domainDir[p][dom] THEN <<Ev(MsgInUse)>> ELSE <<>> IN
         IF failed = 0
         THEN Return(created \o ServerEvents(failed, answer))
         ELSE Raise(created \o ServerEvents(failed, answer))
    /\ UNCHANGED <<pkiDir, pkiFiles, depState, actState>>

GenerateServerCerts ==
  /\ AtOp("create_server_cert")
  /\ LET p == Head(queue).pki
         dom == Head(queue).domain
     IN IF ~pkiDir[p]
        THEN /\ SysExit(<<Ev(MsgNoPkiDir)>>)
             /\ UNCHANGED <<pkiState, depState, actState>>
        ELSE IF ~check_files(RootFilesPresent(p))
        THEN /\ SysExit(<<Ev(MsgMissingFile)>>)
             /\ UNCHANGED <<pkiState, depState, actState>>
        ELSE RunServerCerts(p, dom)

\* --------------------------------------------------- _generate_deployment
\* compose_template.render(...): the values the template is rendered with.
RenderCompose(https_port, keystore_password, pki_name, domain_name) ==
  [HTTPS_PORT_BIND |-> https_port, KEYSTORE_PASSWORD |-> keystore_password,
   PKI_NAME |-> pki_name, DOMAIN_NAME |-> domain_name]

\* A provisioning that writes its two files only into a new directory.
GenerateDeploymentOnce ==
  /\ AtOp("create_deployment")
  /\ LET o == Head(queue) IN
     \E answer \in Answers :
       /\ depDir' = [depDir EXCEPT ![o.dep] = TRUE]
       /\ IF answer = EOF
          THEN /\ Raise(<<>>)
               /\ UNCHANGED <<compose, hostAdd>>
          ELSE /\ compose' = IF depDir[o.dep] THEN compose
                             ELSE [compose EXCEPT ![o.dep] =
                                     RenderCompose(o.port, answer, o.pki, o.domain)]
               /\ hostAdd' = IF depDir[o.dep] THEN hostAdd
                             ELSE [hostAdd EXCEPT ![o.dep] = HostAdditionsText(o.domain)]
               /\ Return(<<Ev(MsgDoneDeployment)>>)
       /\ UNCHANGED <<pkiState, actState>>

\* A provisioning that writes the passphrase after the domain name into
\* host_additions.
GenerateDeploymentLeaky ==
  /\ AtOp("create_deployment")
  /\ LET o == Head(queue) IN
     \E answer \in Answers :
       /\ depDir' = [depDir EXCEPT ![o.dep] = TRUE]
       /\ IF answer = EOF
          THEN /\ Raise(<<>>)
               /\ UNCHANGED <<compose, hostAdd>>
          ELSE /\ compose' = [compose EXCEPT ![o.dep] =
                                RenderCompose(o.port, answer, o.pki, o.domain)]
               /\ hostAdd' = [hostAdd EXCEPT ![o.dep] =
                                HostAdditionsText(o.domain \o <<" ">> \o answer)]
               /\ Return(<<Ev(MsgDoneDeployment)>>)
       /\ UNCHANGED <<pkiState, actState>>

GenerateDeployment ==
  /\ AtOp("create_deployment")
  /\ LET o == Head(queue) IN
     \E answer \in Answers :
       /\ depDir' = [depDir EXCEPT ![o.dep] = TRUE]
       /\ IF answer = EOF
          THEN /\ Raise(<<>>)
               /\ UNCHANGED <<compose, hostAdd>>
          ELSE /\ compose' = [compose EXCEPT ![o.dep] =
                                RenderCompose(o.port, answer, o.pki, o.domain)]
               /\ hostAdd' = [hostAdd EXCEPT ![o.dep] = HostAdditionsText(o.domain)]
               /\ Return(<<Ev(MsgDoneDeployment)>>)
       /\ UNCHANGED <<pkiState, actState>>

\* ------------------------------------------------------ _start_deployment
\* required_filenames of _start_deployment.
DeploymentFilesPresent(d) == <<compose[d] # NoCompose, hostAdd[d] # NoFile>>

\* Lines 401 to 413: read host_additions, append it to /etc/hosts and
\* start docker-compose.  open() raises when host_additions is missing.
Register(d, printed) ==
  IF hostAdd[d] = NoFile
  THEN /\ Raise(printed)
       /\ UNCHANGED <<pkiState, depState, actState>>
  ELSE /\ hosts_entry' = hostAdd[d]
       /\ hostsBefore' = hosts
       /\ hosts' = AppendedHosts(hosts, hostAdd[d])
       /\ running' = d
       /\ ended' = "-"
       /\ trace' = trace \o printed \o <<Ev(ToolCompose)>>
       /\ UNCHANGED <<pkiState, depState, hostsFirst, queue, status>>

\* An activation that does not call _check_files.
StartDeploymentUnchecked ==
  /\ AtOp("start_deployment")
  /\ Register(Head(queue).dep, <<>>)

StartDeployment ==
  /\ AtOp("start_deployment")
  /\ LET d == Head(queue).dep
         printed == IF ~depDir[d] THEN <<Ev(MsgNoDeployment)>> ELSE <<>>
     IN IF ~check_files(DeploymentFilesPresent(d))
        THEN /\ SysExit(printed \o <<Ev(MsgMissingFile)>>)
             /\ UNCHANGED <<pkiState, depState, actState>>
        ELSE Register(d, printed)

\* subprocess.run(["docker-compose", "up"], check=True) returns: the child
\* exited with status 0 and the function goes on to its last print.
ChildExitsZero ==
  /\ status = "running"
  /\ running # NoDep
  /\ running' = NoDep
  /\ ended' = "exit 0"
  /\ Return(<<Ev(MsgDoneStart)>>)
  /\ UNCHANGED <<pkiState, depState, hosts, hosts_entry, hostsBefore, hostsFirst>>

\* The child exited nonzero: CalledProcessError, which the try statement
\* does not catch.
ChildExitsNonzero ==
  /\ status = "running"
  /\ running # NoDep
  /\ running' = NoDep
  /\ ended' = "exit nonzero"
  /\ Raise(<<>>)
  /\ UNCHANGED <<pkiState, depState, hosts, hosts_entry, hostsBefore, hostsFirst>>

\* The handler of KeyboardInterrupt: the filtered copy and the mv.
KeyboardInterrupt ==
  /\ status = "running"
  /\ running # NoDep
  /\ running' = NoDep
  /\ hosts' = FilteredHosts(hosts, hosts_entry)
  /\ ended' = "interrupt"
  /\ Return(<<Ev(ToolMv), Ev(MsgDoneStart)>>)
  /\ UNCHANGED <<pkiState, depState, hosts_entry, hostsBefore, hostsFirst>>

\* ------------------------------------------------------ _git_crypt_unlock
\* The decryption runs with check=True inside a try statement: on a
\* nonzero exit the key file is removed and the function returns.
GitCryptUnlock ==
  /\ AtOp("unlock")
  /\ \E decrypted \in BOOLEAN :
       Return(<<Ev(MsgUnlocking), Ev(ToolDecrypt)>>
                \o (IF decrypted THEN <<Ev(ToolGitCrypt)>>
                    ELSE <<Ev(ToolRmKey), Ev(MsgUnlockFailed)>>))
  /\ UNCHANGED <<pkiState, depState, actState>>

\* -------------------------------------------------- _handle_cli_arguments
NoArg == Op("none", "-", <<>>, NoDep, "-")

\* The parsed command lines: each flag absent or given with its values.
CliArgs ==
  [pki_init : {NoArg} \cup {OpPkiInit(p) : p \in PkiNames},
   create_server_cert :
     {NoArg} \cup {OpServerCert(p, dom) : p \in PkiNames, dom \in Domains},
   create_deployment :
     {NoArg} \cup {OpCreateDeployment(d, port, p, dom) :
                     d \in DeploymentNames, port \in Ports,
                     p \in PkiNames, dom \in Domains},
   start_deployment :
     {NoArg} \cup {OpStartDeployment(d) : d \in DeploymentNames},
   unlock : {NoArg, OpUnlock}]

\* A handler that starts the deployment before it creates it.
HandleCliArgumentsSwapped(args) ==
  SelectSeq(<<args.pki_init, args.create_server_cert,
              args.start_deployment, args.create_deployment, args.unlock>>,
            LAMBDA o : o # NoArg)

\* The operations of one invocation in the order of the if statements.
HandleCliArguments(args) ==
  SelectSeq(<<args.pki_init, args.create_server_cert,
              args.create_deployment, args.start_deployment, args.unlock>>,
            LAMBDA o : o # NoArg)

Given(args) == {f \in DOMAIN args : args[f] # NoArg}

\* The command lines of an operator who works on the PKI store, and of one
\* who works on the deployments.
PkiCommandLines ==
  {args \in CliArgs :
     Given(args) # {} /\ Given(args) \subseteq {"pki_init", "create_server_cert"}}
DeploymentCommandLines ==
  {args \in CliArgs :
     Given(args) # {}
       /\ Given(args) \subseteq {"create_deployment", "start_deployment"}}

\* A new invocation of the script, once the previous one has ended.
Run(args) ==
  /\ status # "running"
  /\ args.start_deployment # NoArg => Len(FileLines(hosts)) < MaxHostsLines
  /\ queue' = HandleCliArguments(args)
  /\ trace' = <<>>
  /\ ended' = "-"
  /\ status' = "running"
  /\ UNCHANGED <<pkiState, depState, hosts, running, hosts_entry, hostsBefore,
                 hostsFirst>>

InvokePki == \E args \in PkiCommandLines : Run(args)

InvokeDeployment == \E args \in DeploymentCommandLines : Run(args)

\* parser.parse_args(): the namespace of a command line, which is the
\* flags with their values in the order the operator typed them.
FlagNames ==
  {"pki_init", "create_server_cert", "create_deployment", "start_deployment",
   "unlock"}

ParseArgs(argv) ==
  [f \in FlagNames |->
     IF \E i \in 1..Len(argv) : argv[i].op = f
     THEN argv[CHOOSE i \in 1..Len(argv) :
                 argv[i].op = f /\ \A j \in (i + 1)..Len(argv) : argv[j].op # f]
     ELSE NoArg]

\* The flags of an operator who does everything for one PKI, one domain
\* and one deployment.
CliFlags ==
  {OpPkiInit("ca"), OpServerCert("ca", <<"a">>),
   OpCreateDeployment("d1", "8443", "ca", <<"a">>), OpStartDeployment("d1"),
   OpUnlock}

\* Every command line with some of these flags, each once, in any order.
CliCommandLines ==
  {argv \in UNION {[1..n -> CliFlags] : n \in 1..Cardinality(CliFlags)} :
     \A i, j \in 1..Len(argv) : i # j => argv[i].op # argv[j].op}

InvokeCli == \E argv \in CliCommandLines : Run(ParseArgs(argv))

Init ==
  /\ pkiDir = [p \in PkiNames |-> FALSE]
  /\ pkiFiles = [p \in PkiNames |-> [f \in PkiFileNames |-> 0]]
  /\ serversDir = [p \in PkiNames |-> FALSE]
  /\ domainDir = [p \in PkiNames |-> [dom \in Domains |-> FALSE]]
  /\ domainFiles = [p \in PkiNames |-> [dom \in Domains |-> {}]]
  /\ certConfText = [p \in PkiNames |-> [dom \in Domains |-> NoCertConf]]
  /\ depDir = [d \in DeploymentNames |-> FALSE]
  /\ compose = [d \in DeploymentNames |-> NoCompose]
  /\ hostAdd = [d \in DeploymentNames |-> NoFile]
  /\ hosts \in InitialHosts
  /\ hostsFirst = hosts
  /\ ended = "-"
  /\ queue = <<>>
  /\ running = NoDep
  /\ hosts_entry = <<>>
  /\ hostsBefore = <<>>
  /\ trace = <<>>
  /\ status = "ok"

\* The operator of the PKI store: bootstrap and issuance.
NextPki ==
  \/ InvokePki
  \/ GenerateRootCerts
  \/ GenerateServerCerts

SpecPki == Init /\ [][NextPki]_vars

\* The operator of the deployments: provisioning and activation.
NextDeployment ==
  \/ InvokeDeployment
  \/ GenerateDeployment
  \/ StartDeployment
  \/ ChildExitsZero
  \/ ChildExitsNonzero
  \/ KeyboardInterrupt

SpecDeployment == Init /\ [][NextDeployment]_vars

\* The operator who gives several flags in one command line.
NextCli ==
  \/ InvokeCli
  \/ GenerateRootCerts
  \/ GenerateServerCerts
  \/ GenerateDeployment
  \/ StartDeployment
  \/ ChildExitsZero
  \/ ChildExitsNonzero
  \/ KeyboardInterrupt
  \/ GitCryptUnlock

\* This operator begins on an /etc/hosts that holds one other host's line.
InitCli == Init /\ hosts = <<"x", NL>>

SpecCli == InitCli /\ [][NextCli]_vars

\* ----------------------------------------------------- reading the state
StripNL(line) ==
  IF line # <<>> /\ line[Len(line)] = NL
  THEN SubSeq(line, 1, Len(line) - 1) ELSE line

\* The lines of a file without their terminators.
LineTexts(content) ==
  [i \in 1..Len(FileLines(content)) |-> StripNL(FileLines(content)[i])]

\* How many lines of the file are exactly `text`.
CountLines(content, text) ==
  Cardinality({i \in 1..Len(LineTexts(content)) : LineTexts(content)[i] = text})

\* The file holds a line with the registration text in it.
HasRegistration(content, entry) ==
  \E i \in 1..Len(FileLines(content)) : Contains(FileLines(content)[i], entry)

\* What the step from this state to the next adds to the trace.
NewEvents == SubSeq(trace', Len(trace) + 1, Len(trace'))

Emits(events, name) == \E i \in 1..Len(events) : events[i].ev = name

RootArtifacts == {RootKey, RootCrt, ServiceKey, SigningRequest}

Bootstrapped(p) == \A f \in RootArtifacts : pkiFiles[p][f] > 0

\* ------------------------------------------------------------------ claims
\* C1: after an activation whose child process exited with status zero,
\* /etc/hosts holds no line with the registration text of that activation.
C1_NormalExitDeregisters ==
  ended = "exit 0" => ~HasRegistration(hosts, hosts_entry)

\* C2: after an activation whose child process exited nonzero, the failure
\* is reported and /etc/hosts holds no line with the registration text.
C2_FailedExitDeregisters ==
  ended = "exit nonzero" =>
    status = "exception" /\ ~HasRegistration(hosts, hosts_entry)

\* C3: after an activation that was interrupted while the child process
\* ran, _start_deployment has returned, the filtered copy has been moved
\* over /etc/hosts and no line of it holds the registration text.
C3_InterruptDeregisters ==
  ended = "interrupt" =>
    /\ running = NoDep
    /\ Emits(trace, ToolMv)
    /\ ~HasRegistration(hosts, hosts_entry)

\* An interrupted activation whose file held the registration text already
\* before the activation appended it.
C3_Witness ==
  /\ ended = "interrupt"
  /\ status = "ok"
  /\ HasRegistration(hostsBefore, hosts_entry)

\* C4: an activation appends exactly one line with the registration text,
\* and once the deregistration has run (the code runs it on interruption)
\* that one line is gone and every line the file held before the
\* activation is still there.
C4_ExactlyOneLine ==
  /\ running # NoDep =>
       CountLines(hosts, hosts_entry) = CountLines(hostsBefore, hosts_entry) + 1
  /\ ended = "interrupt" =>
       /\ CountLines(hosts, hosts_entry) = CountLines(hostsBefore, hosts_entry)
       /\ \A i \in 1..Len(LineTexts(hostsBefore)) :
            CountLines(hosts, LineTexts(hostsBefore)[i])
              >= CountLines(hostsBefore, LineTexts(hostsBefore)[i])

\* C5: a bootstrap of a PKI whose directory exists ends the invocation with
\* the already-exists error alone: no tool runs and the PKI store is left
\* as it was.
C5_BootstrapCreateOnly ==
  [][(AtOp("pki_init") /\ pkiDir[Head(queue).pki]) =>
       /\ status' = "exit1"
       /\ NewEvents = <<Ev(MsgPkiExists)>>
       /\ UNCHANGED pkiState]_vars

\* A second bootstrap of a fully bootstrapped PKI was refused.
C5_Witness ==
  /\ status = "exit1"
  /\ trace # <<>>
  /\ trace[Len(trace)] = Ev(MsgPkiExists)
  /\ \E p \in PkiNames : \A f \in RootArtifacts : pkiFiles[p][f] = 1

\* C6: an issuance under a PKI that lacks one of its four root artifacts
\* ends the invocation with the missing-file error alone: no tool runs, and
\* no directory or file of the PKI store is created or written.
C6_IssueNeedsTrustAnchor ==
  [][(AtOp("create_server_cert") /\ ~Bootstrapped(Head(queue).pki)) =>
       /\ status' = "exit1"
       /\ NewEvents \in {<<Ev(MsgMissingFile)>>, <<Ev(MsgNoPkiDir)>>}
       /\ UNCHANGED pkiState]_vars

\* An issuance was refused under a PKI that has its root key and
\* certificate but no signing request.
C6_Witness ==
  /\ status = "exit1"
  /\ trace = <<Ev(MsgMissingFile)>>
  /\ \E p \in PkiNames :
       /\ pkiFiles[p][RootKey] > 0
       /\ pkiFiles[p][SigningRequest] = 0
       /\ ~serversDir[p]

\* C7: an activation of a deployment whose directory, compose definition or
\* host_additions record is missing ends the invocation with the
\* missing-file error; docker-compose is not started and /etc/hosts is not
\* touched.
C7_ActivateNeedsArtifacts ==
  [][(/\ AtOp("start_deployment")
      /\ \/ ~depDir[Head(queue).dep]
         \/ compose[Head(queue).dep] = NoCompose
         \/ hostAdd[Head(queue).dep] = NoFile) =>
       /\ status' = "exit1"
       /\ NewEvents # <<>>
       /\ NewEvents[Len(NewEvents)] = Ev(MsgMissingFile)
       /\ ~Emits(NewEvents, ToolCompose)
       /\ running' = NoDep
       /\ hosts' = hosts]_vars

\* An activation was refused for a deployment whose directory exists and
\* whose host_additions record does not.
C7_Witness ==
  /\ status = "exit1"
  /\ trace = <<Ev(MsgMissingFile)>>
  /\ \E d \in DeploymentNames : depDir[d] /\ hostAdd[d] = NoFile

\* C8: when /etc/hosts began without registration lines, it holds exactly
\* one line for the registration of the activation in progress and none
\* for any other registration; with no activation in progress it holds none.
C8_OneLinePerActiveDeployment ==
  (\A dom \in Domains : CountLines(hostsFirst, HostAdditionsText(dom)) = 0) =>
    \A dom \in Domains :
      CountLines(hosts, HostAdditionsText(dom)) =
        IF running # NoDep /\ hosts_entry = HostAdditionsText(dom) THEN 1 ELSE 0

\* C9: an issuance that passes its checks prints the reuse warning exactly
\* when the domain directory existed before the call, and goes on to the
\* signing step either way.
C9_ReuseWarning ==
  [][(/\ AtOp("create_server_cert")
      /\ Bootstrapped(Head(queue).pki)) =>
       /\ Emits(NewEvents, MsgInUse)
            <=> domainDir[Head(queue).pki][Head(queue).domain]
       /\ Emits(NewEvents, ToolSign)]_vars

\* C10: no passphrase shorter than the minimum reaches an external tool or
\* a rendered compose definition.
C10_ShortPassphraseRejected ==
  /\ \A i \in 1..Len(trace) :
       trace[i].ev \in {ToolPkcs12, ToolKeytool} =>
         Len(trace[i].pass) >= MinPassLen
  /\ \A d \in DeploymentNames :
       compose[d] # NoCompose =>
         Len(compose[d].KEYSTORE_PASSWORD) >= MinPassLen

\* The names of the external tools among the events, in the order run.
ToolNames(events) ==
  [i \in 1..Len(SelectSeq(events, LAMBDA e : e.ev \in Tools)) |->
     SelectSeq(events, LAMBDA e : e.ev \in Tools)[i].ev]

IsPrefix(s, t) ==
  /\ Len(s) <= Len(t)
  /\ \A i \in 1..Len(s) : s[i] = t[i]

\* The external steps of an issuance, in the order the claims give.
ServerTools == <<ToolSign, ToolPkcs12, ToolKeytool, ToolRm>>

C12_BootstrapAllOrFail ==
  [][(AtOp("pki_init") /\ ~pkiDir[Head(queue).pki]) =>
       LET files == pkiFiles'[Head(queue).pki]
           ran == ToolNames(NewEvents)
       IN /\ ran # <<>> /\ IsPrefix(ran, RootTools)
          /\ Emits(NewEvents, MsgDoneRoot) <=> status' # "exception"
          /\ Emits(NewEvents, MsgDoneRoot) =>
               ran = RootTools /\ \A f \in RootArtifacts : files[f] = 1
          /\ status' = "exception" =>
               /\ queue' = <<>>
               /\ \E f \in RootArtifacts : files[f] = 0
               /\ ~Emits(NewEvents, ToolGenRsa) => files[ServiceKey] = 0
               /\ ~Emits(NewEvents, ToolGenCsr) => files[SigningRequest] = 0]_vars

\* A bootstrap ended at its second step: the root key is written, the
\* service key is not.
C12_Witness ==
  /\ status = "exception"
  /\ ToolNames(trace) = <<ToolRootCert, ToolGenRsa>>
  /\ \E p \in PkiNames :
       pkiFiles[p][RootKey] = 1 /\ pkiFiles[p][ServiceKey] = 0

\* C16: an issuance that passed its checks runs sign, export, convert,
\* delete in this order, each at most once; when a step fails the
\* invocation ends there, and all that the earlier steps wrote stays (after
\* a failed conversion the PKCS#12 bundle is on disk).
C16_IssueStepsInOrder ==
  [][(AtOp("create_server_cert") /\ Bootstrapped(Head(queue).pki)) =>
       LET before == domainFiles[Head(queue).pki][Head(queue).domain]
           files == domainFiles'[Head(queue).pki][Head(queue).domain]
           ran == ToolNames(NewEvents)
       IN /\ ran # <<>> /\ IsPrefix(ran, ServerTools)
          /\ status' = "exception" <=> Len(ran) < Len(ServerTools)
          /\ status' = "exception" =>
               /\ queue' = <<>>
               /\ ~Emits(NewEvents, MsgDoneServer)
               /\ before \subseteq files
          /\ CertConf \in files
          /\ Len(ran) >= 2 => LeafCrt \in files
          /\ Len(ran) = 3 => Pkcs12 \in files]_vars

\* An issuance ended at the conversion, the bundle left on disk.
C16_Witness ==
  /\ status = "exception"
  /\ ToolNames(trace) = <<ToolSign, ToolPkcs12, ToolKeytool>>
  /\ \E p \in PkiNames, dom \in Domains :
       Pkcs12 \in domainFiles[p][dom] /\ Jks \notin domainFiles[p][dom]

\* The directory of the PKI exists and an artifact of it is missing.
Stuck(p) == pkiDir[p] /\ ~Bootstrapped(p)

\* C18: a bootstrap that fails at a step leaves the directory; from then on
\* the PKI stays without its four artifacts, each bootstrap of the name is
\* refused as existing and each issuance under it as missing a file.
C18_FailedBootstrapIsStuck ==
  [][\A p \in PkiNames :
       /\ (/\ AtOp("pki_init") /\ Head(queue).pki = p
           /\ ~pkiDir[p] /\ status' = "exception") =>
            pkiDir'[p] /\ \E f \in RootArtifacts : pkiFiles'[p][f] = 0
       /\ Stuck(p) =>
            /\ pkiDir'[p] /\ \E f \in RootArtifacts : pkiFiles'[p][f] = 0
            /\ (AtOp("pki_init") /\ Head(queue).pki = p) =>
                 status' = "exit1" /\ NewEvents = <<Ev(MsgPkiExists)>>
            /\ (AtOp("create_server_cert") /\ Head(queue).pki = p) =>
                 status' = "exit1" /\ NewEvents = <<Ev(MsgMissingFile)>>]_vars

\* A bootstrap of a stuck PKI name was refused.
C18_Witness ==
  /\ status = "exit1"
  /\ trace # <<>>
  /\ trace[Len(trace)] = Ev(MsgPkiExists)
  /\ \E p \in PkiNames : Stuck(p)

\* C13: a provisioning, whether or not the directory exists, either ends
\* at the abandoned prompt with both files as they were, or returns with the
\* compose definition holding the port, PKI and domain of this call and a
\* passphrase typed in it, and host_additions holding the line of this
\* call's domain; the files of the other deployments stay as they were.
C13_ProvisionOverwrites ==
  [][AtOp("create_deployment") =>
       LET o == Head(queue) IN
         /\ \/ /\ status' = "exception"
               /\ NewEvents = <<>>
               /\ compose' = compose /\ hostAdd' = hostAdd
            \/ /\ status' # "exception"
               /\ NewEvents = <<Ev(MsgDoneDeployment)>>
               /\ compose'[o.dep].HTTPS_PORT_BIND = o.port
               /\ compose'[o.dep].PKI_NAME = o.pki
               /\ compose'[o.dep].DOMAIN_NAME = o.domain
               /\ compose'[o.dep].KEYSTORE_PASSWORD \in Passphrases
               /\ hostAdd'[o.dep] = Loopback \o o.domain
         /\ depDir'[o.dep]
         /\ \A d \in DeploymentNames \ {o.dep} :
              compose'[d] = compose[d] /\ hostAdd'[d] = hostAdd[d]]_vars

\* A provisioning has just returned, and the deployment that was activated
\* for the domain "a" is provisioned for "ab" now: no deployment holds the
\* line the last activation registered.
C13_Witness ==
  /\ status = "ok"
  /\ trace = <<Ev(MsgDoneDeployment)>>
  /\ hosts_entry = HostAdditionsText(<<"a">>)
  /\ \A d \in DeploymentNames :
       hostAdd[d] \in {NoFile, HostAdditionsText(<<"a", "b">>)}
  /\ \E d \in DeploymentNames :
       /\ compose[d].DOMAIN_NAME = <<"a", "b">>
       /\ compose[d].HTTPS_PORT_BIND = "9443"

\* C17: an interrupted activation on a file that held no line with the
\* registration text leaves the file exactly as it was before.
C17_InterruptRoundTrip ==
  (ended = "interrupt" /\ ~HasRegistration(hostsBefore, hosts_entry)) =>
    hosts = hostsBefore
\* C14: once the four root artifacts of a PKI exist, no step of any
\* operation (bootstrap, issuance, provisioning, activation, unlock,
\* succeeding or failing) writes or removes any of them.
C14_RootArtifactsNeverMutated ==
  [][\A p \in PkiNames :
       Bootstrapped(p) =>
         \A f \in RootArtifacts : pkiFiles'[p][f] = pkiFiles[p][f]]_vars

\* A PKI written once, on which a certificate was issued, a deployment
\* provisioned and activated, and a second bootstrap refused.
C14_Witness ==
  /\ \A f \in RootArtifacts : pkiFiles["ca"][f] = 1
  /\ Jks \in domainFiles["ca"][<<"a">>]
  /\ hostAdd["d1"] # NoFile
  /\ hostsBefore # <<>>
  /\ status = "exit1"
  /\ Emits(trace, MsgPkiExists)
\* C15: no text file the operations write outside docker-compose.yaml
\* holds a keystore passphrase: not cert.conf, not host_additions, and of
\* the values docker-compose.yaml is rendered with only KEYSTORE_PASSWORD
\* is one; the tools that are handed a passphrase are the two keystore
\* tools of the issuance.
C15_PassphraseOnlyInCompose ==
  /\ \A p \in PkiNames, dom \in Domains, pw \in Passphrases :
       ~Contains(certConfText[p][dom].SERVER_DOMAIN, pw)
  /\ \A d \in DeploymentNames, pw \in Passphrases :
       /\ ~Contains(hostAdd[d], pw)
       /\ ~Contains(compose[d].DOMAIN_NAME, pw)
  /\ \A d \in DeploymentNames :
       compose[d] # NoCompose =>
         /\ compose[d].KEYSTORE_PASSWORD \in Passphrases
         /\ compose[d].PKI_NAME \in PkiNames
         /\ compose[d].HTTPS_PORT_BIND \in Ports
  /\ \A i \in 1..Len(trace) :
       trace[i].pass # NoPass => trace[i].ev \in {ToolPkcs12, ToolKeytool}

\* A keystore was issued under a passphrase, and a deployment was
\* provisioned under one: cert.conf, host_additions and docker-compose.yaml
\* are all written.
C15_Witness ==
  /\ certConfText["ca"][<<"a">>] # NoCertConf
  /\ Jks \in domainFiles["ca"][<<"a">>]
  /\ hostAdd["d1"] # NoFile
  /\ compose["d1"].KEYSTORE_PASSWORD \in Passphrases
\* The operations in the order of the if statements, and the event that
\* tells each one ran: the last print of the first four, the first of unlock.
OpOrder ==
  <<"pki_init", "create_server_cert", "create_deployment", "start_deployment",
    "unlock">>

Markers ==
  <<MsgDoneRoot, MsgDoneServer, MsgDoneDeployment, MsgDoneStart, MsgUnlocking>>

Rank(order, x) == CHOOSE i \in 1..Len(order) : order[i] = x

IsMarker(e) == \E i \in 1..Len(Markers) : Markers[i] = e.ev

\* C19: whatever the order of the flags, the operations of an invocation
\* are queued and run in the order bootstrap, issuance, provisioning,
\* activation, unlock; an invocation that failed has no operation left to
\* run; and an issuance that follows a bootstrap which returned in the same
\* invocation is not refused for a missing PKI.
C19_FixedOrder ==
  /\ [](/\ \A i, j \in 1..Len(queue) :
            i < j => Rank(OpOrder, queue[i].op) < Rank(OpOrder, queue[j].op)
        /\ \A i, j \in 1..Len(trace) :
            (i < j /\ IsMarker(trace[i]) /\ IsMarker(trace[j])) =>
              Rank(Markers, trace[i].ev) < Rank(Markers, trace[j].ev)
        /\ \A i \in 1..Len(trace), j \in 1..Len(queue) :
            IsMarker(trace[i]) =>
              Rank(Markers, trace[i].ev) < Rank(OpOrder, queue[j].op)
        /\ status \in {"exit1", "exception"} =>
              queue = <<>> /\ running = NoDep)
  /\ [][(AtOp("create_server_cert") /\ Emits(trace, MsgDoneRoot)) =>
          /\ ~Emits(NewEvents, MsgNoPkiDir)
          /\ ~Emits(NewEvents, MsgMissingFile)
          /\ Emits(NewEvents, ToolSign)]_vars

\* An invocation with all five flags in which every operation ran to its
\* end.
C19_Witness ==
  /\ status = "ok"
  /\ \A i \in 1..Len(Markers) : Emits(trace, Markers[i])
====
